---- MODULE Spec2Model ----
(***************************************************************************)
(* Slot swapping service: the events and swap_requests tables and the      *)
(* request handlers of routers/events.py and routers/swaps.py.             *)
(*                                                                         *)
(* Every handler runs in its own database session (database.py get_db).    *)
(* A session sees the committed rows at each SELECT it issues and          *)
(* publishes all of its writes in one db.commit(); nothing in the handlers *)
(* locks a row or re-reads it before writing.  A handler is therefore a    *)
(* sequence of steps, one per SELECT and one for the commit, and the       *)
(* steps of concurrent handlers interleave.                                *)
(***************************************************************************)
EXTENDS Naturals, Integers, Sequences, FiniteSets, TLC

NumUsers == 2
NumSlots == 3
MaxSwaps == 2
NumWorkers == 2
MaxTime == 1

Users == 1..NumUsers
SlotIds == 1..NumSlots
SwapIds == 1..MaxSwaps
Workers == 1..NumWorkers
StartTimes == 1..MaxTime

\* EventStatusEnum (models/event.py)
BUSY == "BUSY"
SWAPPABLE == "SWAPPABLE"
SWAP_PENDING == "SWAP_PENDING"
EventStatusEnum == {BUSY, SWAPPABLE, SWAP_PENDING}

\* SwapRequestStatusEnum (models/swap_request.py)
PENDING == "PENDING"
ACCEPTED == "ACCEPTED"
REJECTED == "REJECTED"
SwapRequestStatusEnum == {PENDING, ACCEPTED, REJECTED}

\* HTTP status codes the handlers answer with, under the names of the
\* failure kinds they stand for.
OK == 200
Created == 201
NoContent == 204
InvalidOperation == 400
PermissionDenied == 403
NotFound == 404
InternalError == 500

VARIABLES
    events,           \* table events: SlotIds -> row (exists = FALSE: no such row)
    swap_requests,    \* table swap_requests, in insertion order; the id is the index
    n_events,         \* number of event ids handed out so far (ids are never reused)
    pc,               \* each worker's position in the handler it runs
    call,             \* each worker's current request: handler, caller, payload
    session,          \* each worker's loaded objects, under the handlers' names
    result,           \* each worker's response: status code and detail
    start_time,       \* column events.start_time: SlotIds -> instant (0: no such row)
    created_at,       \* column swap_requests.created_at, by request id
    listing           \* each worker's response body: the ids of the rows returned, in order

vars == <<events, swap_requests, n_events, pc, call, session, result,
          start_time, created_at, listing>>

NoRow == [exists |-> FALSE, owner_id |-> 0, status |-> "NONE"]
NoSwap == [exists |-> FALSE, id |-> 0, requester_id |-> 0, offered_event_id |-> 0,
           requested_event_id |-> 0, status |-> "NONE"]
NoCall == [op |-> "none", user |-> 0, my_slot_id |-> 0, their_slot_id |-> 0,
           request_id |-> 0, accepted |-> FALSE, event_id |-> 0, status |-> "NONE",
           start_time |-> 0]
NoResult == [status_code |-> 0, detail |-> ""]

\* A session that has loaded nothing: my_slot and their_slot are request_swap's,
\* swap, offered_event and requested_event are respond_to_swap's, event (with
\* its start_time) is update_event's and delete_event's; now is the instant
\* the session's transaction began at, locks the row locks it holds.
NoSession == [my_slot |-> NoRow, their_slot |-> NoRow, swap |-> NoSwap,
              offered_event |-> NoRow, requested_event |-> NoRow, event |-> NoRow,
              event_start_time |-> 0, now |-> 0, locks |-> {}]

Row(owner, status) == [exists |-> TRUE, owner_id |-> owner, status |-> status]

Response(code, detail) == [status_code |-> code, detail |-> detail]

(***************************************************************************)
(* The store.                                                              *)
(***************************************************************************)

\* db.query(Event).filter(Event.id == id).first(): the committed row, or None.
\* The session's identity map hands back the object it already holds for a
\* primary key, with the attributes it was first loaded with, so a second
\* query for a row the session has loaded does not see later commits.
QueryEvent(id, held_id, held) ==
    IF ~events[id].exists THEN NoRow
    ELSE IF id = held_id /\ held.exists THEN held
    ELSE events[id]

\* db.query(SwapRequest).filter(SwapRequest.id == id).first()
QuerySwap(id) ==
    IF id \in 1..Len(swap_requests)
    THEN [exists |-> TRUE, id |-> id,
          requester_id |-> swap_requests[id].requester_id,
          offered_event_id |-> swap_requests[id].offered_event_id,
          requested_event_id |-> swap_requests[id].requested_event_id,
          status |-> swap_requests[id].status]
    ELSE NoSwap

\* QueryOwnEvent without the filter on the owner.
QueryOwnEvent_AnyOwner(id, u) ==
    IF events[id].exists THEN events[id] ELSE NoRow

\* db.query(Event).filter(Event.id == id, Event.owner_id == user).first()
QueryOwnEvent(id, u) ==
    IF events[id].exists /\ events[id].owner_id = u THEN events[id] ELSE NoRow

\* The unit of work writes, at flush, the attributes whose value differs from
\* the loaded one (UPDATE ... SET <changed columns> WHERE id = <primary key>);
\* the other columns of the row keep what is committed.
Dirty(loaded, new) == new # loaded

Flushed(row, loaded, new) ==
    [exists |-> TRUE,
     owner_id |-> IF new.owner_id # loaded.owner_id THEN new.owner_id ELSE row.owner_id,
     status |-> IF new.status # loaded.status THEN new.status ELSE row.status]

\* Referenced without the foreign keys: no event counts as referenced.
Referenced_NoForeignKey(id) == FALSE

\* swap_requests.offered_event_id / requested_event_id are foreign keys to
\* events.id with no ON DELETE rule: a referenced event cannot be deleted.
Referenced(id) ==
    \E i \in 1..Len(swap_requests) :
        \/ swap_requests[i].offered_event_id = id
        \/ swap_requests[i].requested_event_id = id

\* func.now(), the server default of created_at: the instant the transaction
\* began at, which is later than the created_at of every request committed
\* before it began.  Transactions that overlap may get the same instant.
Now ==
    IF created_at = <<>> THEN 1
    ELSE 1 + CHOOSE t \in {created_at[i] : i \in 1..Len(created_at)} :
                 \A i \in 1..Len(created_at) : created_at[i] <= t

\* Calls in flight that will insert a swap request when they commit.
InFlightRequests ==
    Cardinality({v \in Workers : call[v].op = "request_swap" /\ pc[v] # "done"})

(***************************************************************************)
(* Responses.                                                              *)
(***************************************************************************)

\* raise HTTPException(status_code, detail), or the handler's return; get_db
\* then closes the session.
Reply(w, code, detail) ==
    /\ pc' = [pc EXCEPT ![w] = "done"]
    /\ result' = [result EXCEPT ![w] = Response(code, detail)]
    /\ session' = [session EXCEPT ![w] = NoSession]
    /\ listing' = [listing EXCEPT ![w] = <<>>]

\* The handler returns the rows whose ids are in the sequence rows.
ReplyRows(w, rows) ==
    /\ pc' = [pc EXCEPT ![w] = "done"]
    /\ result' = [result EXCEPT ![w] = Response(OK, "")]
    /\ session' = [session EXCEPT ![w] = NoSession]
    /\ listing' = [listing EXCEPT ![w] = rows]

\* The handler goes on, holding the objects s.
Continue(w, label, s) ==
    /\ pc' = [pc EXCEPT ![w] = label]
    /\ session' = [session EXCEPT ![w] = s]
    /\ UNCHANGED <<result, listing>>

(***************************************************************************)
(* POST /swaps/request-swap                                                *)
(***************************************************************************)

\* RequestSwapChecks with the check of their_slot.owner_id made first.
RequestSwapChecks_SelfFirst(u, my, their) ==
    IF their.owner_id = u
    THEN Response(InvalidOperation, "Cannot request swap with your own slot")
    ELSE IF my.owner_id # u
    THEN Response(PermissionDenied, "You do not own the offered slot")
    ELSE IF my.status # SWAPPABLE
    THEN Response(InvalidOperation, "Your slot is not swappable")
    ELSE IF their.status # SWAPPABLE
    THEN Response(InvalidOperation, "Requested slot is not swappable")
    ELSE NoResult

\* RequestSwapChecks without the check of their_slot.owner_id.
RequestSwapChecks_NoSelfCheck(u, my, their) ==
    IF my.owner_id # u
    THEN Response(PermissionDenied, "You do not own the offered slot")
    ELSE IF my.status # SWAPPABLE
    THEN Response(InvalidOperation, "Your slot is not swappable")
    ELSE IF their.status # SWAPPABLE
    THEN Response(InvalidOperation, "Requested slot is not swappable")
    ELSE NoResult

\* RequestSwapChecks without the check of their_slot.status.
RequestSwapChecks_NoTheirStatus(u, my, their) ==
    IF my.owner_id # u
    THEN Response(PermissionDenied, "You do not own the offered slot")
    ELSE IF their.owner_id = u
    THEN Response(InvalidOperation, "Cannot request swap with your own slot")
    ELSE IF my.status # SWAPPABLE
    THEN Response(InvalidOperation, "Your slot is not swappable")
    ELSE NoResult

\* The four checks made on the two loaded slots, in the handler's order; NoResult
\* when all pass.
RequestSwapChecks(u, my, their) ==
    IF my.owner_id # u
    THEN Response(PermissionDenied, "You do not own the offered slot")
    ELSE IF their.owner_id = u
    THEN Response(InvalidOperation, "Cannot request swap with your own slot")
    ELSE IF my.status # SWAPPABLE
    THEN Response(InvalidOperation, "Your slot is not swappable")
    ELSE IF their.status # SWAPPABLE
    THEN Response(InvalidOperation, "Requested slot is not swappable")
    ELSE NoResult

\* The call arrives and the handler loads my_slot.
RequestSwap(w, u, a, b) ==
    /\ pc[w] = "idle"
    /\ Len(swap_requests) + InFlightRequests < MaxSwaps
    /\ call' = [call EXCEPT ![w] = [NoCall EXCEPT !.op = "request_swap", !.user = u,
                                                  !.my_slot_id = a, !.their_slot_id = b]]
    /\ LET my == QueryEvent(a, 0, NoRow)
       IN  IF ~my.exists
           THEN Reply(w, NotFound, "My slot not found")
           ELSE Continue(w, "request_swap_their",
                         [NoSession EXCEPT !.my_slot = my, !.now = Now])
    /\ UNCHANGED <<events, swap_requests, n_events, start_time, created_at>>

\* RequestSwapTheir with my_slot marked SWAP_PENDING, and committed, before the
\* checks are made.
RequestSwapTheir_MarkFirst(w) ==
    /\ pc[w] = "request_swap_their"
    /\ events' = [events EXCEPT ![call[w].my_slot_id].status =
                     IF events[call[w].my_slot_id].exists THEN SWAP_PENDING ELSE @]
    /\ LET my == session[w].my_slot
           their == QueryEvent(call[w].their_slot_id, call[w].my_slot_id, my)
           r == RequestSwapChecks(call[w].user, my, their)
       IN  IF ~their.exists
           THEN Reply(w, NotFound, "Their slot not found")
           ELSE IF r # NoResult
           THEN Reply(w, r.status_code, r.detail)
           ELSE Continue(w, "request_swap_commit", [session[w] EXCEPT !.their_slot = their])
    /\ UNCHANGED <<swap_requests, n_events, call, start_time, created_at>>

\* The handler loads their_slot and checks the two slots.
RequestSwapTheir(w) ==
    /\ pc[w] = "request_swap_their"
    /\ LET my == session[w].my_slot
           their == QueryEvent(call[w].their_slot_id, call[w].my_slot_id, my)
           r == RequestSwapChecks(call[w].user, my, their)
       IN  IF ~their.exists
           THEN Reply(w, NotFound, "Their slot not found")
           ELSE IF r # NoResult
           THEN Reply(w, r.status_code, r.detail)
           ELSE Continue(w, "request_swap_commit", [session[w] EXCEPT !.their_slot = their])
    /\ UNCHANGED <<events, swap_requests, n_events, call, start_time, created_at>>

\* NewSwapRequest with the caller kept in a variable of the module, which the
\* call that arrived last has set.
NewSwapRequest_SharedUser(w) ==
    [requester_id |-> call[CHOOSE v \in Workers :
                              /\ call[v].op # "none"
                              /\ \A x \in Workers : call[x].op # "none" => x <= v].user,
     offered_event_id |-> call[w].my_slot_id,
     requested_event_id |-> call[w].their_slot_id,
     status |-> PENDING]

\* The swap request the handler builds.
NewSwapRequest(w) ==
    [requester_id |-> call[w].user,
     offered_event_id |-> call[w].my_slot_id,
     requested_event_id |-> call[w].their_slot_id,
     status |-> PENDING]

\* RequestSwapEvents without the write of their_slot.status.
RequestSwapEvents_OfferedOnly(w) ==
    LET a == call[w].my_slot_id
        my == session[w].my_slot
    IN  [events EXCEPT ![a] = Flushed(events[a], my, [my EXCEPT !.status = SWAP_PENDING])]

\* The rows of events after the handler's two status writes are flushed.
RequestSwapEvents(w) ==
    LET a == call[w].my_slot_id
        b == call[w].their_slot_id
        my == session[w].my_slot
        their == session[w].their_slot
    IN  [events EXCEPT
           ![a] = Flushed(events[a], my, [my EXCEPT !.status = SWAP_PENDING]),
           ![b] = Flushed(events[b], their, [their EXCEPT !.status = SWAP_PENDING])]

\* db.commit(): the insert and the two updates become visible together.  An
\* update of a row that is gone matches no row and the commit raises; the
\* handler does not catch it and the server answers 500.
RequestSwapCommit(w) ==
    /\ pc[w] = "request_swap_commit"
    /\ IF events[call[w].my_slot_id].exists /\ events[call[w].their_slot_id].exists
       THEN /\ swap_requests' = Append(swap_requests, NewSwapRequest(w))
            /\ created_at' = Append(created_at, session[w].now)
            /\ events' = RequestSwapEvents(w)
            /\ Reply(w, Created, "")
       ELSE /\ UNCHANGED <<events, swap_requests, created_at>>
            /\ Reply(w, InternalError, "Internal Server Error")
    /\ UNCHANGED <<n_events, call, start_time>>

(***************************************************************************)
(* POST /swaps/response-swap/{request_id}                                  *)
(***************************************************************************)

\* The call arrives and the handler loads the swap request.
RespondToSwap(w, u, r, accepted) ==
    /\ pc[w] = "idle"
    /\ call' = [call EXCEPT ![w] = [NoCall EXCEPT !.op = "respond_to_swap", !.user = u,
                                                  !.request_id = r, !.accepted = accepted]]
    /\ LET sw == QuerySwap(r)
       IN  IF ~sw.exists
           THEN Reply(w, NotFound, "Swap request not found")
           ELSE Continue(w, "respond_offered", [NoSession EXCEPT !.swap = sw])
    /\ UNCHANGED <<events, swap_requests, n_events, start_time, created_at>>

\* The handler loads the offered event.
RespondOffered(w) ==
    /\ pc[w] = "respond_offered"
    /\ Continue(w, "respond_requested",
                [session[w] EXCEPT
                   !.offered_event = QueryEvent(session[w].swap.offered_event_id, 0, NoRow)])
    /\ UNCHANGED <<events, swap_requests, n_events, call, start_time, created_at>>

\* RespondChecks with the check of the request's status made before the
\* ownership check.
RespondChecks_StatusFirst(u, sw, off, req) ==
    IF ~off.exists \/ ~req.exists
    THEN Response(NotFound, "Related events not found")
    ELSE IF sw.status # PENDING
    THEN Response(InvalidOperation, "Swap request already processed")
    ELSE IF req.owner_id # u
    THEN Response(PermissionDenied, "Not authorized to respond to this request")
    ELSE NoResult

\* RespondChecks with the ownership check made on the offered event.
RespondChecks_OfferedOwner(u, sw, off, req) ==
    IF ~off.exists \/ ~req.exists
    THEN Response(NotFound, "Related events not found")
    ELSE IF off.owner_id # u
    THEN Response(PermissionDenied, "Not authorized to respond to this request")
    ELSE IF sw.status # PENDING
    THEN Response(InvalidOperation, "Swap request already processed")
    ELSE NoResult

\* The checks made once the request and its two events are loaded, in the
\* handler's order; NoResult when all pass.
RespondChecks(u, sw, off, req) ==
    IF ~off.exists \/ ~req.exists
    THEN Response(NotFound, "Related events not found")
    ELSE IF req.owner_id # u
    THEN Response(PermissionDenied, "Not authorized to respond to this request")
    ELSE IF sw.status # PENDING
    THEN Response(InvalidOperation, "Swap request already processed")
    ELSE NoResult

\* The handler loads the requested event and checks.
RespondRequested(w) ==
    /\ pc[w] = "respond_requested"
    /\ LET sw == session[w].swap
           off == session[w].offered_event
           req == QueryEvent(sw.requested_event_id, sw.offered_event_id, off)
           r == RespondChecks(call[w].user, sw, off, req)
       IN  IF r # NoResult
           THEN Reply(w, r.status_code, r.detail)
           ELSE Continue(w, "respond_commit", [session[w] EXCEPT !.requested_event = req])
    /\ UNCHANGED <<events, swap_requests, n_events, call, start_time, created_at>>

\* Rejected without the revert of the two statuses.
Rejected_NoRevert(sw, off, req) ==
    [swap |-> [sw EXCEPT !.status = REJECTED], offered_event |-> off, requested_event |-> req]

\* What the handler assigns to the loaded objects on a rejection.
Rejected(sw, off, req) ==
    [swap |-> [sw EXCEPT !.status = REJECTED],
     offered_event |-> [off EXCEPT !.status = IF @ = SWAP_PENDING THEN SWAPPABLE ELSE @],
     requested_event |-> [req EXCEPT !.status = IF @ = SWAP_PENDING THEN SWAPPABLE ELSE @]]

\* Accepted without original_requested_owner: the offered event is given the
\* owner the requested event has just been given.
Accepted_NoTemp(sw, off, req) ==
    [swap |-> [sw EXCEPT !.status = ACCEPTED],
     offered_event |-> [off EXCEPT !.status = BUSY],
     requested_event |-> [req EXCEPT !.owner_id = off.owner_id, !.status = BUSY]]

\* What the handler assigns to the loaded objects on an acceptance.
Accepted(sw, off, req) ==
    [swap |-> [sw EXCEPT !.status = ACCEPTED],
     offered_event |-> [off EXCEPT !.owner_id = req.owner_id, !.status = BUSY],
     requested_event |-> [req EXCEPT !.owner_id = off.owner_id, !.status = BUSY]]

RespondAssignments(accepted, sw, off, req) ==
    IF accepted THEN Accepted(sw, off, req) ELSE Rejected(sw, off, req)

\* The rows of events after the changed columns of the two events are flushed.
RespondEvents(w, new) ==
    LET o == session[w].swap.offered_event_id
        q == session[w].swap.requested_event_id
        off == session[w].offered_event
        req == session[w].requested_event
    IN  [events EXCEPT
           ![o] = IF Dirty(off, new.offered_event)
                  THEN Flushed(events[o], off, new.offered_event) ELSE @,
           ![q] = IF Dirty(req, new.requested_event)
                  THEN Flushed(events[q], req, new.requested_event) ELSE @]

\* db.commit(): the request's status and the changed columns of the two events
\* become visible together.  Any exception is caught: rollback, then 500.
RespondCommit(w) ==
    /\ pc[w] = "respond_commit"
    /\ LET sw == session[w].swap
           off == session[w].offered_event
           req == session[w].requested_event
           new == RespondAssignments(call[w].accepted, sw, off, req)
           stale == \/ Dirty(off, new.offered_event) /\ ~events[sw.offered_event_id].exists
                    \/ Dirty(req, new.requested_event) /\ ~events[sw.requested_event_id].exists
       IN  IF stale
           THEN /\ UNCHANGED <<events, swap_requests>>
                /\ Reply(w, InternalError, "Failed to process swap response")
           ELSE /\ swap_requests' = [swap_requests EXCEPT ![sw.id].status = new.swap.status]
                /\ events' = RespondEvents(w, new)
                /\ Reply(w, OK, "")
    /\ UNCHANGED <<n_events, call, start_time, created_at>>

(***************************************************************************)
(* /events                                                                 *)
(***************************************************************************)

\* POST /events/: a new BUSY event of the caller under a fresh id, starting at
\* the payload's start_time.
CreateEvent(w, u, t) ==
    /\ pc[w] = "idle"
    /\ n_events < NumSlots
    /\ call' = [call EXCEPT ![w] = [NoCall EXCEPT !.op = "create_event", !.user = u,
                                                  !.event_id = n_events + 1,
                                                  !.start_time = t]]
    /\ n_events' = n_events + 1
    /\ events' = [events EXCEPT ![n_events + 1] = Row(u, BUSY)]
    /\ start_time' = [start_time EXCEPT ![n_events + 1] = t]
    /\ Reply(w, Created, "")
    /\ UNCHANGED <<swap_requests, created_at>>

\* The sequences that hold each element of the set S once.
Orderings(S) ==
    {q \in [1..Cardinality(S) -> S] :
        \A i \in 1..Cardinality(S), j \in 1..Cardinality(S) : i # j => q[i] # q[j]}

\* ORDER BY events.start_time ASC: the orders the store may return the events
\* of S in; events that start at the same instant come in any order.
OrderByStartTimeAsc(S) ==
    {q \in Orderings(S) :
        \A i \in 1..Len(q), j \in 1..Len(q) :
            i < j => start_time[q[i]] <= start_time[q[j]]}

\* GET /events/: the caller's events, ordered by start_time.
ListEvents(w, u) ==
    /\ pc[w] = "idle"
    /\ call' = [call EXCEPT ![w] = [NoCall EXCEPT !.op = "list_events", !.user = u]]
    /\ \E rows \in OrderByStartTimeAsc({e \in SlotIds :
                                           events[e].exists /\ events[e].owner_id = u}) :
          ReplyRows(w, rows)
    /\ UNCHANGED <<events, swap_requests, n_events, start_time, created_at>>

\* GET /events/{event_id}: the event, if it is the caller's.
GetEvent(w, u, e) ==
    /\ pc[w] = "idle"
    /\ call' = [call EXCEPT ![w] = [NoCall EXCEPT !.op = "get_event", !.user = u,
                                                  !.event_id = e]]
    /\ IF ~QueryOwnEvent(e, u).exists
       THEN Reply(w, NotFound, "Event not found")
       ELSE ReplyRows(w, <<e>>)
    /\ UNCHANGED <<events, swap_requests, n_events, start_time, created_at>>

\* PUT /events/{event_id}: the call arrives and the handler loads the event.
\* Of the payload, the model keeps the status (None is "NONE") and the
\* start_time (None is 0); the rows of the model carry no title or end_time.
UpdateEvent(w, u, e, st, t) ==
    /\ pc[w] = "idle"
    /\ call' = [call EXCEPT ![w] = [NoCall EXCEPT !.op = "update_event", !.user = u,
                                                  !.event_id = e, !.status = st,
                                                  !.start_time = t]]
    /\ LET ev == QueryOwnEvent(e, u)
       IN  IF ~ev.exists
           THEN Reply(w, NotFound, "Event not found")
           ELSE Continue(w, "update_commit",
                         [NoSession EXCEPT !.event = ev,
                                           !.event_start_time = start_time[e]])
    /\ UNCHANGED <<events, swap_requests, n_events, start_time, created_at>>

\* What the handler assigns to the loaded event.
Updated(ev, st) == [ev EXCEPT !.status = IF st # "NONE" THEN st ELSE @]

\* db.commit() and db.refresh(event): both raise when the row is gone.
UpdateEventCommit(w) ==
    /\ pc[w] = "update_commit"
    /\ LET e == call[w].event_id
           ev == session[w].event
           t == call[w].start_time
       IN  IF ~events[e].exists
           THEN /\ UNCHANGED <<events, start_time>>
                /\ Reply(w, InternalError, "Internal Server Error")
           ELSE /\ events' = [events EXCEPT ![e] = Flushed(@, ev, Updated(ev, call[w].status))]
                /\ start_time' = IF t # 0 /\ t # session[w].event_start_time
                                  THEN [start_time EXCEPT ![e] = t]
                                  ELSE start_time
                /\ Reply(w, OK, "")
    /\ UNCHANGED <<swap_requests, n_events, call, created_at>>

\* DELETE /events/{event_id}: the call arrives and the handler loads the event.
DeleteEvent(w, u, e) ==
    /\ pc[w] = "idle"
    /\ call' = [call EXCEPT ![w] = [NoCall EXCEPT !.op = "delete_event", !.user = u,
                                                  !.event_id = e]]
    /\ LET ev == QueryOwnEvent(e, u)
       IN  IF ~ev.exists
           THEN Reply(w, NotFound, "Event not found")
           ELSE Continue(w, "delete_commit", [NoSession EXCEPT !.event = ev])
    /\ UNCHANGED <<events, swap_requests, n_events, start_time, created_at>>

\* db.delete(event); db.commit().  The foreign keys of swap_requests refuse
\* the delete of a referenced event: the commit raises and the server answers
\* 500.  A delete that matches no row is not an error.
DeleteEventCommit(w) ==
    /\ pc[w] = "delete_commit"
    /\ LET e == call[w].event_id
       IN  IF events[e].exists /\ Referenced(e)
           THEN /\ UNCHANGED <<events, start_time>>
                /\ Reply(w, InternalError, "Internal Server Error")
           ELSE /\ events' = [events EXCEPT ![e] = NoRow]
                /\ start_time' = [start_time EXCEPT ![e] = 0]
                /\ Reply(w, NoContent, "")
    /\ UNCHANGED <<swap_requests, n_events, call, created_at>>

(***************************************************************************)
(* GET /swaps/swappable-slots, /incoming-requests, /outgoing-requests      *)
(***************************************************************************)

\* users.name of user u.
UserName(u) == <<"name", u>>

\* SwappableSlots without the filter on the owner.
SwappableSlots_AnyOwner(u) ==
    {e \in SlotIds : events[e].exists /\ events[e].status = SWAPPABLE}

\* WHERE events.status = 'SWAPPABLE' AND events.owner_id != :current_user
SwappableSlots(u) ==
    {e \in SlotIds :
        /\ events[e].exists
        /\ events[e].status = SWAPPABLE
        /\ events[e].owner_id # u}

\* A row of list_swappable_slots: the event joined with its owner's name.
SwappableEventResponse(e) == [id |-> e, owner_name |-> UserName(events[e].owner_id)]

\* GET /swaps/swappable-slots: the SWAPPABLE events of the other users, each
\* with its owner's name, ordered by start_time.
ListSwappableSlots(w, u) ==
    /\ pc[w] = "idle"
    /\ call' = [call EXCEPT ![w] = [NoCall EXCEPT !.op = "list_swappable_slots", !.user = u]]
    /\ \E q \in OrderByStartTimeAsc(SwappableSlots(u)) :
          ReplyRows(w, [i \in 1..Len(q) |-> SwappableEventResponse(q[i])])
    /\ UNCHANGED <<events, swap_requests, n_events, start_time, created_at>>

\* OrderByCreatedAtDesc with the oldest request first.
OrderByCreatedAtDesc_Asc(S) ==
    {q \in Orderings(S) :
        \A i \in 1..Len(q), j \in 1..Len(q) :
            i < j => created_at[q[i]] <= created_at[q[j]]}

\* ORDER BY swap_requests.created_at DESC: the orders the store may return the
\* requests of S in; requests created at the same instant come in any order.
OrderByCreatedAtDesc(S) ==
    {q \in Orderings(S) :
        \A i \in 1..Len(q), j \in 1..Len(q) :
            i < j => created_at[q[i]] >= created_at[q[j]]}

\* IncomingRequests without the filter on the status.
IncomingRequests_AnyStatus(u) ==
    {i \in 1..Len(swap_requests) :
        /\ events[swap_requests[i].offered_event_id].exists
        /\ events[swap_requests[i].requested_event_id].exists
        /\ events[swap_requests[i].requested_event_id].owner_id = u}

\* The swap requests joined with their two events, WHERE swap_requests.status
\* = 'PENDING' AND requested_evt.owner_id = :current_user
IncomingRequests(u) ==
    {i \in 1..Len(swap_requests) :
        /\ events[swap_requests[i].offered_event_id].exists
        /\ events[swap_requests[i].requested_event_id].exists
        /\ swap_requests[i].status = PENDING
        /\ events[swap_requests[i].requested_event_id].owner_id = u}

\* GET /swaps/incoming-requests
ListIncomingRequests(w, u) ==
    /\ pc[w] = "idle"
    /\ call' = [call EXCEPT ![w] = [NoCall EXCEPT !.op = "list_incoming_requests", !.user = u]]
    /\ \E rows \in OrderByCreatedAtDesc(IncomingRequests(u)) : ReplyRows(w, rows)
    /\ UNCHANGED <<events, swap_requests, n_events, start_time, created_at>>

\* The swap requests joined with their two events, WHERE
\* swap_requests.requester_id = :current_user
OutgoingRequests(u) ==
    {i \in 1..Len(swap_requests) :
        /\ events[swap_requests[i].offered_event_id].exists
        /\ events[swap_requests[i].requested_event_id].exists
        /\ swap_requests[i].requester_id = u}

\* GET /swaps/outgoing-requests
ListOutgoingRequests(w, u) ==
    /\ pc[w] = "idle"
    /\ call' = [call EXCEPT ![w] = [NoCall EXCEPT !.op = "list_outgoing_requests", !.user = u]]
    /\ \E rows \in OrderByCreatedAtDesc(OutgoingRequests(u)) : ReplyRows(w, rows)
    /\ UNCHANGED <<events, swap_requests, n_events, start_time, created_at>>

(***************************************************************************)
(* The store fails, the worker returns.                                    *)
(***************************************************************************)

CommitLabels == {"request_swap_commit", "respond_commit", "update_commit", "delete_commit"}

\* CommitFails with the swap request written in a transaction of its own,
\* committed before the failure.
CommitFails_RequestKept(w) ==
    /\ pc[w] \in CommitLabels
    /\ swap_requests' =
          IF pc[w] = "request_swap_commit"
          THEN Append(swap_requests, NewSwapRequest(w))
          ELSE IF pc[w] = "respond_commit"
          THEN [swap_requests EXCEPT ![session[w].swap.id].status =
                   IF call[w].accepted THEN ACCEPTED ELSE REJECTED]
          ELSE swap_requests
    /\ created_at' = IF pc[w] = "request_swap_commit"
                     THEN Append(created_at, session[w].now) ELSE created_at
    /\ Reply(w, InternalError, "Internal Server Error")
    /\ UNCHANGED <<events, n_events, call, start_time>>

\* db.commit() raises (connection lost, timeout): the transaction is rolled
\* back and nothing of it is visible.  respond_to_swap catches the exception
\* and raises its own 500; the other handlers let it reach the server.
CommitFails(w) ==
    /\ pc[w] \in CommitLabels
    /\ IF pc[w] = "respond_commit"
       THEN Reply(w, InternalError, "Failed to process swap response")
       ELSE Reply(w, InternalError, "Internal Server Error")
    /\ UNCHANGED <<events, swap_requests, n_events, call, start_time, created_at>>

\* The response is sent and the worker takes the next call.
Return(w) ==
    /\ pc[w] = "done"
    /\ pc' = [pc EXCEPT ![w] = "idle"]
    /\ call' = [call EXCEPT ![w] = NoCall]
    /\ result' = [result EXCEPT ![w] = NoResult]
    /\ listing' = [listing EXCEPT ![w] = <<>>]
    /\ UNCHANGED <<events, swap_requests, n_events, session, start_time, created_at>>

(***************************************************************************)
(* The row locks of a flush.                                               *)
(***************************************************************************)

\* The events that the flush of worker w's transaction updates or deletes.
\* update_event's payload has a title and an end_time, which the rows of the
\* model do not carry: its flush is taken to update the event.
WrittenEvents(w) ==
    IF pc[w] = "request_swap_commit"
    THEN {call[w].my_slot_id, call[w].their_slot_id}
    ELSE IF pc[w] = "respond_commit"
    THEN LET sw == session[w].swap
             off == session[w].offered_event
             req == session[w].requested_event
             new == RespondAssignments(call[w].accepted, sw, off, req)
         IN  {e \in {sw.offered_event_id} : Dirty(off, new.offered_event)}
                \cup {e \in {sw.requested_event_id} : Dirty(req, new.requested_event)}
    ELSE IF pc[w] \in {"update_commit", "delete_commit"}
    THEN {call[w].event_id}
    ELSE {}

\* EventWrites in the order the handler touched the events.
EventWrites_AsAssigned(w) ==
    LET first == IF pc[w] = "request_swap_commit" THEN call[w].my_slot_id
                 ELSE IF pc[w] = "respond_commit" THEN session[w].swap.offered_event_id
                 ELSE call[w].event_id
    IN  CHOOSE q \in Orderings(WrittenEvents(w)) :
            \A i \in 1..Len(q) : q[i] = first => i = 1

\* The unit of work writes the changed rows of one table in the order of
\* their primary keys.
EventWrites(w) ==
    CHOOSE q \in Orderings(WrittenEvents(w)) :
        \A i \in 1..Len(q), j \in 1..Len(q) : i < j => q[i] < q[j]

\* The rows the flush writes, in its order: the events, then, for
\* respond_to_swap, the swap request (the table that depends on events comes
\* after it).
FlushWrites(w) ==
    [i \in 1..Len(EventWrites(w)) |-> <<"events", EventWrites(w)[i]>>]
       \o (IF pc[w] = "respond_commit"
           THEN << <<"swap_requests", session[w].swap.id>> >>
           ELSE <<>>)

\* The flush has written every row: the transaction holds all its locks.
Flushed_All(w) == Cardinality(session[w].locks) = Len(FlushWrites(w))

\* One UPDATE or DELETE of the flush: it takes the lock of the row, once no
\* other transaction holds it, and keeps it until the transaction ends.
FlushLock(w) ==
    /\ pc[w] \in CommitLabels
    /\ ~Flushed_All(w)
    /\ LET row == FlushWrites(w)[Cardinality(session[w].locks) + 1]
       IN  /\ \A v \in Workers \ {w} : row \notin session[v].locks
           /\ session' = [session EXCEPT ![w].locks = @ \cup {row}]
    /\ UNCHANGED <<events, swap_requests, n_events, pc, call, result,
                   start_time, created_at, listing>>

\* The COMMIT that ends a flush.
LockedCommit(w) ==
    /\ Flushed_All(w)
    /\ \/ RequestSwapCommit(w)
       \/ RespondCommit(w)
       \/ UpdateEventCommit(w)
       \/ DeleteEventCommit(w)

(***************************************************************************)
(* Specifications.                                                         *)
(***************************************************************************)

IdleWorkers ==
    /\ pc = [w \in Workers |-> "idle"]
    /\ call = [w \in Workers |-> NoCall]
    /\ result = [w \in Workers |-> NoResult]
    /\ session = [w \in Workers |-> NoSession]
    /\ listing = [w \in Workers |-> <<>>]

\* The store after some users have created events and opened some of them for
\* swapping (create_event, update_event), before any swap is requested.
Init ==
    /\ n_events \in 0..NumSlots
    /\ events \in [SlotIds -> {NoRow} \cup {Row(u, st) : u \in Users, st \in {BUSY, SWAPPABLE}}]
    /\ \A s \in SlotIds : events[s].exists <=> s <= n_events
    /\ start_time \in [SlotIds -> 0..MaxTime]
    /\ \A s \in SlotIds : events[s].exists <=> start_time[s] # 0
    /\ swap_requests = <<>>
    /\ created_at = <<>>
    /\ IdleWorkers

Payloads == {"NONE"} \cup EventStatusEnum

\* EventUpdate.start_time: an instant, or None (0).
TimePayloads == {0} \cup StartTimes

Step(w) ==
    \/ \E u \in Users, a \in SlotIds, b \in SlotIds : RequestSwap(w, u, a, b)
    \/ RequestSwapTheir(w)
    \/ RequestSwapCommit(w)
    \/ \E u \in Users, r \in SwapIds, accepted \in BOOLEAN : RespondToSwap(w, u, r, accepted)
    \/ RespondOffered(w)
    \/ RespondRequested(w)
    \/ RespondCommit(w)
    \/ \E u \in Users, t \in StartTimes : CreateEvent(w, u, t)
    \/ \E u \in Users : ListEvents(w, u)
    \/ \E u \in Users, e \in SlotIds : GetEvent(w, u, e)
    \/ \E u \in Users, e \in SlotIds, st \in Payloads, t \in TimePayloads :
          UpdateEvent(w, u, e, st, t)
    \/ UpdateEventCommit(w)
    \/ \E u \in Users, e \in SlotIds : DeleteEvent(w, u, e)
    \/ DeleteEventCommit(w)
    \/ CommitFails(w)
    \/ Return(w)

\* One call at a time: a worker runs each handler to its response before it
\* takes the next call.
Next == Step(1)

Spec == Init /\ [][Next]_vars

\* Stores in which one swap has been requested and not yet answered: every
\* slot exists, and one PENDING request ties an offered slot of its requester
\* to a requested slot of another user, both SWAP_PENDING (the state
\* request_swap leaves).
OneRequestStores ==
    {[ev |-> [base EXCEPT ![a] = Row(u, SWAP_PENDING), ![b] = Row(v, SWAP_PENDING)],
      sr |-> <<[requester_id |-> u, offered_event_id |-> a, requested_event_id |-> b,
                status |-> PENDING]>>] :
        <<base, u, v, a, b>> \in
            {t \in [SlotIds -> {Row(x, st) : x \in Users, st \in {BUSY, SWAPPABLE}}]
                   \X Users \X Users \X SlotIds \X SlotIds :
                /\ t[2] # t[3]
                /\ t[4] # t[5]}}

\* Every slot exists; either no swap has been requested yet, or one is open.
OverlapInit ==
    /\ n_events = NumSlots
    /\ \/ /\ events \in [SlotIds -> {Row(u, st) : u \in Users, st \in {BUSY, SWAPPABLE}}]
          /\ swap_requests = <<>>
          /\ created_at = <<>>
       \/ \E s \in OneRequestStores :
             /\ events = s.ev
             /\ swap_requests = s.sr
             /\ created_at = <<1>>
    /\ start_time = [s \in SlotIds |-> 1]
    /\ IdleWorkers

\* The steps of request_swap.
RequestStep(w) ==
    \/ \E u \in Users, a \in SlotIds, b \in SlotIds : RequestSwap(w, u, a, b)
    \/ RequestSwapTheir(w)
    \/ RequestSwapCommit(w)

\* The steps of respond_to_swap.
RespondStep(w) ==
    \/ \E u \in Users, r \in SwapIds, accepted \in BOOLEAN : RespondToSwap(w, u, r, accepted)
    \/ RespondOffered(w)
    \/ RespondRequested(w)
    \/ RespondCommit(w)

\* Overlapping calls: every worker handles one call of a swap handler, and
\* the steps of the workers' handlers interleave in every order.
OverlapNext == \E w \in Workers : RequestStep(w) \/ RespondStep(w) \/ CommitFails(w)

SpecOverlap == OverlapInit /\ [][OverlapNext]_vars

\* Overlapping request_swap calls on slots that are all SWAPPABLE.
RequestRaceInit ==
    /\ n_events = NumSlots
    /\ events \in [SlotIds -> {Row(u, SWAPPABLE) : u \in Users}]
    /\ start_time = [s \in SlotIds |-> 1]
    /\ swap_requests = <<>>
    /\ created_at = <<>>
    /\ IdleWorkers

RequestRaceNext == \E w \in Workers : RequestStep(w) \/ CommitFails(w)

SpecRequestRace == RequestRaceInit /\ [][RequestRaceNext]_vars

\* Overlapping respond_to_swap calls on one open request.
RespondRaceInit ==
    /\ n_events = NumSlots
    /\ \E s \in OneRequestStores :
          /\ events = s.ev
          /\ swap_requests = s.sr
    /\ start_time = [s \in SlotIds |-> 1]
    /\ created_at = <<1>>
    /\ IdleWorkers

RespondRaceNext == \E w \in Workers : RespondStep(w) \/ CommitFails(w)

SpecRespondRace == RespondRaceInit /\ [][RespondRaceNext]_vars

\* Every slot exists and no swap has been requested yet.
InterleaveInit ==
    /\ n_events = NumSlots
    /\ events \in [SlotIds -> {Row(u, st) : u \in Users, st \in {BUSY, SWAPPABLE}}]
    /\ start_time = [s \in SlotIds |-> 1]
    /\ swap_requests = <<>>
    /\ created_at = <<>>
    /\ IdleWorkers

\* One request_swap call, handled by worker 1, overlaps the calls that worker
\* 2 handles one after another: between any two steps of the request_swap,
\* other swap calls are handled from their arrival to their response.
InterleaveNext ==
    \/ RequestStep(1)
    \/ CommitFails(1)
    \/ RequestStep(2)
    \/ RespondStep(2)
    \/ CommitFails(2)
    \/ Return(2)

SpecInterleave == InterleaveInit /\ [][InterleaveNext]_vars

\* The steps of update_event and delete_event.
EventStep(w) ==
    \/ \E u \in Users, e \in SlotIds, st \in Payloads, t \in TimePayloads :
          UpdateEvent(w, u, e, st, t)
    \/ UpdateEventCommit(w)
    \/ \E u \in Users, e \in SlotIds : DeleteEvent(w, u, e)
    \/ DeleteEventCommit(w)

\* A call of a swap handler, by worker 1, overlaps an update_event or a
\* delete_event, by worker 2.
EventRaceNext ==
    \/ RequestStep(1)
    \/ RespondStep(1)
    \/ CommitFails(1)
    \/ EventStep(2)
    \/ CommitFails(2)

SpecEventRace == OverlapInit /\ [][EventRaceNext]_vars

\* The rows swap_requests can hold: a request of a user that offers one slot
\* for another, in any status.
SwapRequestRows ==
    {[requester_id |-> u, offered_event_id |-> a, requested_event_id |-> b, status |-> st] :
        <<u, a, b, st>> \in
            {t \in Users \X SlotIds \X SlotIds \X SwapRequestStatusEnum : t[2] # t[3]}}

\* Stores to list: every slot exists.  Either no swap has been requested and
\* the slots have any owners, statuses and start instants; or the slots, of
\* any owners, are named by up to MaxSwaps requests of any statuses, created
\* at any instants (a request committed later may have begun earlier).
ListInit ==
    /\ n_events = NumSlots
    /\ \/ /\ events \in [SlotIds -> {Row(u, st) : u \in Users, st \in EventStatusEnum}]
          /\ start_time \in [SlotIds -> 1..NumSlots]
          /\ swap_requests = <<>>
          /\ created_at = <<>>
       \/ /\ events \in [SlotIds -> {Row(u, BUSY) : u \in Users}]
          /\ start_time = [s \in SlotIds |-> 1]
          /\ \E n \in 1..MaxSwaps :
                /\ swap_requests \in [1..n -> SwapRequestRows]
                /\ created_at \in [1..n -> 1..MaxSwaps]
    /\ IdleWorkers

\* One list call at a time.
ListNext ==
    \/ \E u \in Users : ListEvents(1, u)
    \/ \E u \in Users : ListSwappableSlots(1, u)
    \/ \E u \in Users : ListIncomingRequests(1, u)
    \/ \E u \in Users : ListOutgoingRequests(1, u)
    \/ Return(1)

SpecLists == ListInit /\ [][ListNext]_vars

\* The owner the slots have in FairInit.
FirstOwner(s) == ((s - 1) % NumUsers) + 1

\* The stores of OverlapInit in which slot s is owned by FirstOwner(s).
FairInit ==
    /\ OverlapInit
    /\ \A s \in SlotIds : events[s].owner_id = FirstOwner(s)

\* A call arrives at worker w.
Arrive(w) ==
    \/ \E u \in Users, a \in SlotIds, b \in SlotIds : RequestSwap(w, u, a, b)
    \/ \E u \in Users, r \in SwapIds, accepted \in BOOLEAN : RespondToSwap(w, u, r, accepted)
    \/ \E u \in Users, e \in SlotIds, st \in Payloads : UpdateEvent(w, u, e, st, 0)
    \/ \E u \in Users, e \in SlotIds : DeleteEvent(w, u, e)

\* The next step of the handler that worker w runs.
Proceed(w) ==
    \/ RequestSwapTheir(w)
    \/ RespondOffered(w)
    \/ RespondRequested(w)
    \/ FlushLock(w)
    \/ LockedCommit(w)

FairNext == \E w \in Workers : Arrive(w) \/ Proceed(w) \/ CommitFails(w)

\* Every worker handles one call; the thread that runs a handler is scheduled
\* again and again, so a handler that can take its next step takes it.  No
\* store failure has to happen.
SpecFair == FairInit /\ [][FairNext]_vars /\ \A w \in Workers : WF_vars(Proceed(w))

\* Calls on different identifiers: worker w works on two slots of its own,
\* and on the swap requests over them.
DisjointSlots == 1..(2 * NumWorkers)

OwnSlots(w) == {2 * w - 1, 2 * w}

OwnRequests(w) ==
    {i \in 1..Len(swap_requests) : swap_requests[i].offered_event_id \in OwnSlots(w)}

\* A swap request over the two slots of worker w, by the owner of the slot it
\* offers, open or rejected.
OwnRequestRows(w) ==
    {[requester_id |-> FirstOwner(a), offered_event_id |-> a, requested_event_id |-> b,
      status |-> st] :
        <<a, b, st>> \in {t \in OwnSlots(w) \X OwnSlots(w) \X {PENDING, REJECTED} :
                             t[1] # t[2]}}

\* Every slot exists, slot s owned by FirstOwner(s).  No swap has been
\* requested, or one over the slots of worker 1, or one more over the slots of
\* worker 2; the slots of an open request are SWAP_PENDING.
DisjointInit ==
    /\ n_events = 2 * NumWorkers
    /\ start_time = [s \in DisjointSlots |-> 1]
    /\ \/ swap_requests = <<>>
       \/ \E r \in OwnRequestRows(1) : swap_requests = <<r>>
       \/ \E r \in OwnRequestRows(1), q \in OwnRequestRows(2) : swap_requests = <<r, q>>
    /\ created_at = [i \in 1..Len(swap_requests) |-> i]
    /\ events \in [DisjointSlots -> {Row(u, st) : u \in Users, st \in EventStatusEnum}]
    /\ \A s \in DisjointSlots :
          /\ events[s].owner_id = FirstOwner(s)
          /\ events[s].status = SWAP_PENDING
                <=> \E i \in 1..Len(swap_requests) :
                       /\ swap_requests[i].status = PENDING
                       /\ s \in {swap_requests[i].offered_event_id,
                                  swap_requests[i].requested_event_id}
    /\ IdleWorkers

\* The steps of a swap call of worker w on its own slots and requests.
DisjointStep(w) ==
    \/ \E u \in Users, a \in OwnSlots(w), b \in OwnSlots(w) : RequestSwap(w, u, a, b)
    \/ \E u \in Users, r \in OwnRequests(w), accepted \in BOOLEAN :
          RespondToSwap(w, u, r, accepted)
    \/ RequestSwapTheir(w)
    \/ RequestSwapCommit(w)
    \/ RespondOffered(w)
    \/ RespondRequested(w)
    \/ RespondCommit(w)
    \/ CommitFails(w)

DisjointNext == \E w \in Workers : DisjointStep(w)

SpecDisjoint == DisjointInit /\ [][DisjointNext]_vars

\* Stores in which two swaps that share a slot are open: every slot exists,
\* each request is PENDING, by the owner of the slot it offers, for a slot of
\* another user, and the slots of the requests are SWAP_PENDING.
TwoRequestStores ==
    {st \in [ev : [SlotIds -> {Row(u, s) : u \in Users, s \in EventStatusEnum}],
             sr : [1..2 -> SwapRequestRows]] :
        /\ \A i \in 1..2 :
              /\ st.sr[i].status = PENDING
              /\ st.sr[i].requester_id = st.ev[st.sr[i].offered_event_id].owner_id
              /\ st.sr[i].requester_id # st.ev[st.sr[i].requested_event_id].owner_id
        /\ {st.sr[1].offered_event_id, st.sr[1].requested_event_id}
              \cap {st.sr[2].offered_event_id, st.sr[2].requested_event_id} # {}
        /\ \A s \in SlotIds :
              st.ev[s].status = SWAP_PENDING
                 <=> \E i \in 1..2 : s \in {st.sr[i].offered_event_id,
                                            st.sr[i].requested_event_id}}

AcceptRaceInit ==
    /\ n_events = NumSlots
    /\ \E st \in TwoRequestStores :
          /\ events = st.ev
          /\ swap_requests = st.sr
    /\ start_time = [s \in SlotIds |-> 1]
    /\ created_at = <<1, 1>>
    /\ IdleWorkers

\* Overlapping respond_to_swap calls on two open requests that share a slot.
SpecAcceptRace == AcceptRaceInit /\ [][RespondRaceNext]_vars

(***************************************************************************)
(* Properties.                                                             *)
(***************************************************************************)

\* The PENDING swap requests that have slot s as offered or requested slot.
PendingOn(s) ==
    {i \in 1..Len(swap_requests) :
        /\ swap_requests[i].status = PENDING
        /\ \/ swap_requests[i].offered_event_id = s
           \/ swap_requests[i].requested_event_id = s}

\* Worker w has answered a request_swap call / a respond_to_swap call.
RequestDone(w) == pc[w] = "done" /\ call[w].op = "request_swap"
RespondDone(w) == pc[w] = "done" /\ call[w].op = "respond_to_swap"

\* The call of w is one its caller may make on the committed rows: the caller
\* owns the offered slot and does not own the requested one.
OwnOffer(w) ==
    /\ events[call[w].my_slot_id].owner_id = call[w].user
    /\ events[call[w].their_slot_id].owner_id # call[w].user

\* C1: in every reachable state each slot is the offered or the requested slot
\* of at most one PENDING swap request.
C1_OnePendingPerSlot == \A s \in SlotIds : Cardinality(PendingOn(s)) <= 1

\* C2: two overlapping request_swap calls of a slot's owner for the same
\* (offered, requested) pair, both slots SWAPPABLE at the start, end with one
\* PENDING request for the pair, one call created and one InvalidOperation
\* (runs in which the store itself fails set aside).
C2_SamePairRace ==
    \A w1 \in Workers, w2 \in Workers :
        ( /\ w1 # w2
          /\ RequestDone(w1) /\ RequestDone(w2)
          /\ call[w1].my_slot_id = call[w2].my_slot_id
          /\ call[w1].their_slot_id = call[w2].their_slot_id
          /\ OwnOffer(w1) /\ OwnOffer(w2)
          /\ result[w1].status_code # InternalError
          /\ result[w2].status_code # InternalError )
        => /\ {result[w1].status_code, result[w2].status_code} = {Created, InvalidOperation}
           /\ Cardinality({i \in 1..Len(swap_requests) :
                  /\ swap_requests[i].status = PENDING
                  /\ swap_requests[i].offered_event_id = call[w1].my_slot_id
                  /\ swap_requests[i].requested_event_id = call[w1].their_slot_id}) = 1

\* C3: two overlapping request_swap calls that share exactly one slot (the
\* offered one or the requested one), all slots SWAPPABLE at the start, do not
\* both succeed: one of them fails with InvalidOperation.
C3_SharedSlotRace ==
    \A w1 \in Workers, w2 \in Workers :
        ( /\ w1 # w2
          /\ RequestDone(w1) /\ RequestDone(w2)
          /\ \/ /\ call[w1].my_slot_id = call[w2].my_slot_id
                /\ call[w1].their_slot_id # call[w2].their_slot_id
             \/ /\ call[w1].my_slot_id # call[w2].my_slot_id
                /\ call[w1].their_slot_id = call[w2].their_slot_id
          /\ OwnOffer(w1) /\ OwnOffer(w2)
          /\ result[w1].status_code # InternalError
          /\ result[w2].status_code # InternalError )
        => /\ ~(result[w1].status_code = Created /\ result[w2].status_code = Created)
           /\ InvalidOperation \in {result[w1].status_code, result[w2].status_code}

\* C4: a swap request that is ACCEPTED or REJECTED keeps its status in every
\* later step.
C4_TerminalStatus ==
    [][\A i \in 1..Len(swap_requests) :
          swap_requests[i].status \in {ACCEPTED, REJECTED}
          => swap_requests'[i].status = swap_requests[i].status]_vars

\* The swap request worker w has loaded, as committed, and its two slots.
Loaded(w) == swap_requests[session[w].swap.id]
OfferedId(w) == session[w].swap.offered_event_id
RequestedId(w) == session[w].swap.requested_event_id

\* Worker w is in respond_to_swap past the loading of the swap request.
Responding(w) == pc[w] \in {"respond_offered", "respond_requested", "respond_commit"}

\* C5: respond_to_swap on a request that is already ACCEPTED or REJECTED ends
\* with InvalidOperation, whoever calls, and changes no request and no slot.
C5_AnsweredIsInvalid ==
    [][\A w \in Workers :
          ( /\ pc[w] = "respond_requested"
            /\ pc'[w] # pc[w]
            /\ Loaded(w).status \in {ACCEPTED, REJECTED} )
          => /\ pc'[w] = "done"
             /\ result'[w].status_code = InvalidOperation
             /\ events' = events
             /\ swap_requests' = swap_requests]_vars

\* The case of C6 and C7: the request w has loaded is PENDING, its offered slot
\* belongs to the requester, its requested slot to the caller, and both slots
\* are SWAP_PENDING.
OpenForCaller(w) ==
    /\ Responding(w)
    /\ Loaded(w).status = PENDING
    /\ events[OfferedId(w)] = Row(Loaded(w).requester_id, SWAP_PENDING)
    /\ events[RequestedId(w)] = Row(call[w].user, SWAP_PENDING)

\* The step of w ends the commit of respond_to_swap with a store failure that
\* leaves the tables as they were.
FailedCleanly(w) ==
    /\ result'[w].status_code = InternalError
    /\ events' = events
    /\ swap_requests' = swap_requests

\* C6: respond_to_swap(Y, R, accepted = true) in the case above passes the
\* checks, and its commit leaves the offered slot with Y, the requested slot
\* with the requester, both BUSY, and R ACCEPTED.
C6_AcceptExchanges ==
    [][\A w \in Workers :
          (OpenForCaller(w) /\ call[w].accepted /\ pc'[w] # pc[w])
          => /\ pc[w] = "respond_requested" => pc'[w] = "respond_commit"
             /\ pc[w] = "respond_commit" =>
                   \/ FailedCleanly(w)
                   \/ /\ result'[w].status_code = OK
                      /\ events'[OfferedId(w)] = Row(call[w].user, BUSY)
                      /\ events'[RequestedId(w)] = Row(Loaded(w).requester_id, BUSY)
                      /\ swap_requests'[session[w].swap.id] =
                             [Loaded(w) EXCEPT !.status = ACCEPTED]]_vars

C6_Witness ==
    \E w \in Workers :
        /\ pc[w] = "done" /\ call[w].op = "respond_to_swap" /\ call[w].accepted
        /\ result[w].status_code = OK
        /\ LET r == swap_requests[call[w].request_id]
           IN  /\ r.status = ACCEPTED
               /\ r.requester_id # call[w].user
               /\ events[r.offered_event_id] = Row(call[w].user, BUSY)
               /\ events[r.requested_event_id] = Row(r.requester_id, BUSY)

\* C7: respond_to_swap(Y, R, accepted = false) in the case above passes the
\* checks, and its commit leaves R REJECTED, both slots SWAPPABLE and their
\* owners as they were.
C7_RejectRestores ==
    [][\A w \in Workers :
          (OpenForCaller(w) /\ ~call[w].accepted /\ pc'[w] # pc[w])
          => /\ pc[w] = "respond_requested" => pc'[w] = "respond_commit"
             /\ pc[w] = "respond_commit" =>
                   \/ FailedCleanly(w)
                   \/ /\ result'[w].status_code = OK
                      /\ events'[OfferedId(w)] = Row(Loaded(w).requester_id, SWAPPABLE)
                      /\ events'[RequestedId(w)] = Row(call[w].user, SWAPPABLE)
                      /\ swap_requests'[session[w].swap.id] =
                             [Loaded(w) EXCEPT !.status = REJECTED]]_vars

C7_Witness ==
    \E w \in Workers :
        /\ pc[w] = "done" /\ call[w].op = "respond_to_swap" /\ ~call[w].accepted
        /\ result[w].status_code = OK
        /\ LET r == swap_requests[call[w].request_id]
           IN  /\ r.status = REJECTED
               /\ r.requester_id # call[w].user
               /\ events[r.offered_event_id] = Row(r.requester_id, SWAPPABLE)
               /\ events[r.requested_event_id] = Row(call[w].user, SWAPPABLE)

\* C8: two overlapping respond_to_swap calls on the same request, both let
\* through by the ownership check: one takes effect and the other fails with
\* InvalidOperation, and in the end the owners are exchanged and both slots
\* BUSY exactly when the request is ACCEPTED, the owners unchanged exactly
\* when it is REJECTED.  (The offered slot starts with the requester, the
\* requested slot with another user.)
C8_RespondRace ==
    \A w1 \in Workers, w2 \in Workers :
        ( /\ w1 # w2
          /\ RespondDone(w1) /\ RespondDone(w2)
          /\ call[w1].request_id = call[w2].request_id
          /\ {result[w1].status_code, result[w2].status_code} \subseteq {OK, InvalidOperation} )
        => LET r == swap_requests[call[w1].request_id]
               off == events[r.offered_event_id]
               req == events[r.requested_event_id]
               exchanged == off.owner_id # r.requester_id /\ req.owner_id = r.requester_id
               unchanged == off.owner_id = r.requester_id /\ req.owner_id # r.requester_id
           IN  /\ {result[w1].status_code, result[w2].status_code} = {OK, InvalidOperation}
               /\ r.status = ACCEPTED <=> (exchanged /\ off.status = BUSY /\ req.status = BUSY)
               /\ r.status = REJECTED <=> unchanged

\* C9: a commit of request_swap or respond_to_swap that fails answers
\* InternalError and leaves every request and every slot as it was, and
\* nothing of the failed call stays behind in the worker: the same call made
\* again starts from the same tables and an empty session.
C9_FailedCommit ==
    [][\A w \in Workers :
          ( /\ pc[w] \in {"request_swap_commit", "respond_commit"}
            /\ pc'[w] = "done"
            /\ result'[w].status_code \notin {OK, Created} )
          => /\ result'[w].status_code = InternalError
             /\ events' = events
             /\ swap_requests' = swap_requests
             /\ n_events' = n_events
             /\ session'[w] = NoSession]_vars

\* A respond_to_swap has failed at its commit while the other worker is in the
\* middle of a handler: the request is still PENDING and its slots are still
\* SWAP_PENDING.
C9_Witness ==
    \E w \in Workers, v \in Workers :
        /\ RespondDone(w)
        /\ result[w] = Response(InternalError, "Failed to process swap response")
        /\ pc[v] \notin {"idle", "done"}
        /\ LET r == swap_requests[call[w].request_id]
           IN  /\ r.status = PENDING
               /\ events[r.offered_event_id].status = SWAP_PENDING
               /\ events[r.requested_event_id].status = SWAP_PENDING

\* C10: the commit of request_swap is one step that either inserts the PENDING
\* request and sets both of its slots to SWAP_PENDING, or changes nothing: no
\* state has the new request without both status changes, or a status change
\* of the call without its request.
C10_RequestAtomic ==
    [][\A w \in Workers :
          (pc[w] = "request_swap_commit" /\ pc'[w] # pc[w])
          => \/ /\ result'[w].status_code = Created
                /\ swap_requests' = Append(swap_requests,
                       [requester_id |-> call[w].user,
                        offered_event_id |-> call[w].my_slot_id,
                        requested_event_id |-> call[w].their_slot_id,
                        status |-> PENDING])
                /\ events'[call[w].my_slot_id].status = SWAP_PENDING
                /\ events'[call[w].their_slot_id].status = SWAP_PENDING
                /\ \A s \in SlotIds \ {call[w].my_slot_id, call[w].their_slot_id} :
                       events'[s] = events[s]
             \/ /\ result'[w].status_code = InternalError
                /\ swap_requests' = swap_requests
                /\ events' = events]_vars

\* A request_swap has committed while the other worker is in the middle of a
\* handler, between two of its reads.
C10_Witness ==
    \E w \in Workers, v \in Workers :
        /\ RequestDone(w) /\ result[w].status_code = Created
        /\ pc[v] \in {"request_swap_their", "respond_offered", "respond_requested"}
        /\ \E i \in 1..Len(swap_requests) :
              /\ swap_requests[i].offered_event_id = call[w].my_slot_id
              /\ swap_requests[i].requested_event_id = call[w].their_slot_id
              /\ events[call[w].my_slot_id].status = SWAP_PENDING
              /\ events[call[w].their_slot_id].status = SWAP_PENDING

\* C11: every request_swap(u, a, b) that succeeds commits its request in a
\* state in which u owns slot a; and a call whose caller does not own the
\* offered slot it has loaded (both slots existing) ends with PermissionDenied
\* and changes no request and no slot.
C11_OffererOwns ==
    [][\A w \in Workers :
          /\ ( /\ pc[w] = "request_swap_commit"
               /\ pc'[w] = "done"
               /\ result'[w].status_code = Created )
             => events'[call[w].my_slot_id].owner_id = call[w].user
          /\ ( /\ pc[w] = "request_swap_their"
               /\ pc'[w] # pc[w]
               /\ events[call[w].their_slot_id].exists
               /\ session[w].my_slot.owner_id # call[w].user )
             => /\ result'[w].status_code = PermissionDenied
                /\ events' = events
                /\ swap_requests' = swap_requests]_vars

\* Worker w takes the step of request_swap that loads their_slot and checks,
\* and both slots exist.
RequestChecked(w) ==
    /\ pc[w] = "request_swap_their"
    /\ pc'[w] # pc[w]
    /\ events[call[w].their_slot_id].exists

\* The step of w changes no request and no slot.
NothingWritten ==
    /\ events' = events
    /\ swap_requests' = swap_requests

\* C12 as stated: request_swap(u, a, b) where u owns b always fails with
\* InvalidOperation, whatever the statuses and whoever owns a, and changes no
\* request and no slot.
C12_SelfSwapAlwaysInvalid ==
    [][\A w \in Workers :
          (RequestChecked(w) /\ events[call[w].their_slot_id].owner_id = call[w].user)
          => /\ pc'[w] = "done"
             /\ result'[w].status_code = InvalidOperation
             /\ NothingWritten]_vars

\* C12 as amended: request_swap(u, a, b) where u owns b fails, whatever the
\* statuses, with InvalidOperation when u owns the offered slot a too (as
\* when a and b are the same slot of u) and with PermissionDenied when u does
\* not own a; no request is created and no slot changes.
C12_SelfSwapInvalid ==
    [][\A w \in Workers :
          (RequestChecked(w) /\ events[call[w].their_slot_id].owner_id = call[w].user)
          => /\ pc'[w] = "done"
             /\ result'[w].status_code =
                    IF session[w].my_slot.owner_id = call[w].user
                    THEN InvalidOperation ELSE PermissionDenied
             /\ NothingWritten]_vars

\* A request_swap of a user for one and the same SWAPPABLE slot of theirs has
\* been refused as a swap with oneself.
C12_Witness ==
    \E w \in Workers :
        /\ RequestDone(w)
        /\ call[w].my_slot_id = call[w].their_slot_id
        /\ events[call[w].my_slot_id] = Row(call[w].user, SWAPPABLE)
        /\ result[w] = Response(InvalidOperation, "Cannot request swap with your own slot")
        /\ swap_requests = <<>>

\* What the status gate of request_swap answers for worker w: the failure that
\* names the slot at fault, the offered one first, or NoResult when both slots
\* are SWAPPABLE as the handler reads them.
StatusGate(w) ==
    IF session[w].my_slot.status # SWAPPABLE
    THEN Response(InvalidOperation, "Your slot is not swappable")
    ELSE IF events[call[w].their_slot_id].status # SWAPPABLE
    THEN Response(InvalidOperation, "Requested slot is not swappable")
    ELSE NoResult

\* The step of w either refuses the call as the status gate says, or lets it
\* through to the commit.
GateApplied(w) ==
    IF StatusGate(w) # NoResult
    THEN /\ pc'[w] = "done"
         /\ result'[w] = StatusGate(w)
         /\ NothingWritten
    ELSE pc'[w] = "request_swap_commit"

\* The commit of request_swap by w creates the request and leaves both of its
\* slots SWAP_PENDING, unless the store fails and nothing changes.
RequestCommitted(w) ==
    \/ /\ result'[w].status_code = InternalError
       /\ NothingWritten
    \/ /\ result'[w].status_code = Created
       /\ Len(swap_requests') = Len(swap_requests) + 1
       /\ events'[call[w].my_slot_id].status = SWAP_PENDING
       /\ events'[call[w].their_slot_id].status = SWAP_PENDING

\* C13 as stated: request_swap on two existing slots fails with
\* InvalidOperation, naming the slot at fault, if either slot is not SWAPPABLE,
\* and otherwise succeeds and sets both slots to SWAP_PENDING.
C13_StatusGateAlone ==
    [][\A w \in Workers :
          /\ RequestChecked(w) => GateApplied(w)
          /\ (pc[w] = "request_swap_commit" /\ pc'[w] # pc[w]) => RequestCommitted(w)]_vars

\* C13 as amended: the same, for the calls whose caller owns the offered slot
\* and asks for another slot, of another user.
C13_StatusGate ==
    [][\A w \in Workers :
          /\ ( /\ RequestChecked(w)
               /\ session[w].my_slot.owner_id = call[w].user
               /\ call[w].their_slot_id # call[w].my_slot_id
               /\ events[call[w].their_slot_id].owner_id # call[w].user )
             => GateApplied(w)
          /\ (pc[w] = "request_swap_commit" /\ pc'[w] # pc[w]) => RequestCommitted(w)]_vars

\* A request_swap of the owner of a SWAPPABLE slot has been refused because
\* the requested slot, of another user, is SWAP_PENDING in an open request.
C13_Witness ==
    \E w \in Workers :
        /\ RequestDone(w)
        /\ result[w] = Response(InvalidOperation, "Requested slot is not swappable")
        /\ events[call[w].my_slot_id] = Row(call[w].user, SWAPPABLE)
        /\ events[call[w].their_slot_id].status = SWAP_PENDING
        /\ events[call[w].their_slot_id].owner_id # call[w].user
        /\ PendingOn(call[w].their_slot_id) # {}
        /\ PendingOn(call[w].my_slot_id) = {}

C15_PendingOwners ==
    [][/\ \A i \in 1..Len(swap_requests') :
             swap_requests'[i].status = PENDING
             => /\ events'[swap_requests'[i].offered_event_id].owner_id =
                       swap_requests'[i].requester_id
                /\ events'[swap_requests'[i].requested_event_id].owner_id #
                       swap_requests'[i].requester_id
       /\ Len(swap_requests') > Len(swap_requests)
             => LET r == swap_requests'[Len(swap_requests')]
                IN  /\ events[r.offered_event_id].status = SWAPPABLE
                    /\ events[r.requested_event_id].status = SWAPPABLE]_vars

\* C16: the commit of a successful respond_to_swap(y, R, accepted = true)
\* leaves R's requested slot owned by R's requester and R's offered slot owned
\* by y.
C16_AcceptedOwners ==
    [][\A w \in Workers :
          ( /\ pc[w] = "respond_commit"
            /\ call[w].accepted
            /\ pc'[w] = "done"
            /\ result'[w].status_code = OK )
          => /\ events'[RequestedId(w)].owner_id = Loaded(w).requester_id
             /\ events'[OfferedId(w)].owner_id = call[w].user]_vars

\* The step is the commit of a successful request_swap that creates a request
\* with slot s as its offered or requested slot.
CreatesRequestOn(s) ==
    \E w \in Workers :
        /\ pc[w] = "request_swap_commit"
        /\ result'[w].status_code = Created
        /\ s \in {call[w].my_slot_id, call[w].their_slot_id}
        /\ Len(swap_requests') = Len(swap_requests) + 1

\* The step is the commit of a successful respond_to_swap on a request with
\* slot s as its offered or requested slot, and leaves s BUSY on an accept,
\* SWAPPABLE on a reject.
AnswersRequestOn(s) ==
    \E w \in Workers :
        /\ pc[w] = "respond_commit"
        /\ result'[w].status_code = OK
        /\ s \in {OfferedId(w), RequestedId(w)}
        /\ events'[s].status = IF call[w].accepted THEN BUSY ELSE SWAPPABLE

\* C17: a slot's status becomes SWAP_PENDING only in the commit of a
\* request_swap that creates a request on it, and a SWAP_PENDING slot's status
\* changes only in the commit of a respond_to_swap on its request, to BUSY on
\* an accept and to SWAPPABLE on a reject.
C17_PendingOnlyByEngine ==
    [][\A s \in SlotIds :
          /\ (events[s].status # SWAP_PENDING /\ events'[s].status = SWAP_PENDING)
                => CreatesRequestOn(s)
          /\ (events[s].status = SWAP_PENDING /\ events'[s].status # SWAP_PENDING)
                => AnswersRequestOn(s)]_vars

\* C18: update_event and delete_event by the owner of a slot that is
\* SWAP_PENDING in a request still PENDING are refused and leave the slot as
\* it is.
C18_PendingSlotFrozen ==
    [][\A w \in Workers :
          ( /\ pc[w] \in {"update_commit", "delete_commit"}
            /\ pc'[w] = "done"
            /\ events[call[w].event_id] = Row(call[w].user, SWAP_PENDING)
            /\ PendingOn(call[w].event_id) # {} )
          => /\ result'[w].status_code \notin {OK, NoContent}
             /\ events'[call[w].event_id] = events[call[w].event_id]]_vars

\* C19: in every reachable state the offered slot and the requested slot of
\* every stored swap request, whatever its status, exist, and no
\* respond_to_swap has answered that the related events were not found.
C19_ReferentialIntegrity ==
    /\ \A i \in 1..Len(swap_requests) :
          /\ events[swap_requests[i].offered_event_id].exists
          /\ events[swap_requests[i].requested_event_id].exists
    /\ \A w \in Workers : result[w].detail # "Related events not found"

\* The owner of a slot that a stored swap request references has called
\* delete_event on it: the store has refused the delete and the slot is still
\* there.
C19_Witness ==
    \E w \in Workers :
        /\ pc[w] = "done" /\ call[w].op = "delete_event"
        /\ result[w].status_code = InternalError
        /\ events[call[w].event_id].exists
        /\ events[call[w].event_id].owner_id = call[w].user
        /\ \E i \in 1..Len(swap_requests) :
              call[w].event_id \in {swap_requests[i].offered_event_id,
                                    swap_requests[i].requested_event_id}

\* C20: whenever the owner's delete_event on a slot that is not the offered
\* or requested slot of any PENDING swap request is about to commit, the
\* commit can succeed: it answers NoContent and the slot is gone.
C20_OwnerDeletes ==
    \A w \in Workers :
        ( /\ pc[w] = "delete_commit"
          /\ events[call[w].event_id].exists
          /\ events[call[w].event_id].owner_id = call[w].user
          /\ PendingOn(call[w].event_id) = {} )
        => ENABLED ( /\ DeleteEventCommit(w)
                     /\ result'[w].status_code = NoContent
                     /\ ~events'[call[w].event_id].exists )

\* Slot e has been exchanged: it is the offered or the requested slot of an
\* ACCEPTED swap request.
Exchanged(e) ==
    \E i \in 1..Len(swap_requests) :
        /\ swap_requests[i].status = ACCEPTED
        /\ e \in {swap_requests[i].offered_event_id, swap_requests[i].requested_event_id}

\* The ids in the response body of worker w.
Listed(w) == {listing[w][i] : i \in 1..Len(listing[w])}

\* Worker w has answered a call of the slot operation op.
EventCallDone(w, op) == pc[w] = "done" /\ call[w].op = op

\* C21: an exchanged slot is reached through the slot operations by its
\* current owner and by nobody else: get_event returns it to the owner and
\* answers NotFound to the others, list_events shows it to the owner only,
\* update_event and delete_event answer NotFound to the others, and the
\* owner's update_event and delete_event can commit with success, the delete
\* removing the slot.
C21_AccessFollowsOwner ==
    \A w \in Workers :
        LET e == call[w].event_id
            u == call[w].user
        IN  /\ (EventCallDone(w, "get_event") /\ Exchanged(e))
                  => IF events[e].owner_id = u
                     THEN result[w].status_code = OK /\ listing[w] = <<e>>
                     ELSE result[w].status_code = NotFound
            /\ EventCallDone(w, "list_events")
                  => \A x \in SlotIds :
                        Exchanged(x) => (x \in Listed(w) <=> events[x].owner_id = u)
            /\ ( /\ EventCallDone(w, "update_event") \/ EventCallDone(w, "delete_event")
                 /\ Exchanged(e)
                 /\ events[e].owner_id # u )
                  => result[w].status_code = NotFound
            /\ (pc[w] = "update_commit" /\ Exchanged(e))
                  => ENABLED (UpdateEventCommit(w) /\ result'[w].status_code = OK)
            /\ (pc[w] = "delete_commit" /\ Exchanged(e))
                  => ENABLED ( /\ DeleteEventCommit(w)
                               /\ result'[w].status_code = NoContent
                               /\ ~events'[e].exists )

\* A PENDING swap request with the offered and the requested slot of the
\* request_swap call of worker w is committed.
DuplicatePending(w) ==
    \E i \in 1..Len(swap_requests) :
        /\ swap_requests[i].status = PENDING
        /\ swap_requests[i].offered_event_id = call[w].my_slot_id
        /\ swap_requests[i].requested_event_id = call[w].their_slot_id

\* C22: a request_swap call that finds a PENDING swap request with the same
\* offered slot and the same requested slot creates no second request and
\* does not answer with success.
C22_NoDuplicateRequest ==
    [][\A w \in Workers :
          (pc[w] = "request_swap_commit" /\ DuplicatePending(w))
             => /\ swap_requests' = swap_requests
                /\ result'[w].status_code # Created]_vars

\* The sequence q holds each of its elements once.
NoRepeats(q) == \A i \in 1..Len(q), j \in 1..Len(q) : i # j => q[i] # q[j]

\* C23: list_swappable_slots answers, for user u, one row for each slot that
\* is SWAPPABLE and not owned by u and no other row (no BUSY slot, no
\* SWAP_PENDING slot, no slot of u), each row with the name of the slot's
\* owner, the rows in ascending order of start instant.
C23_ListSwappable ==
    \A w \in Workers :
        EventCallDone(w, "list_swappable_slots")
           => LET rows == listing[w]
                  u == call[w].user
              IN  /\ result[w].status_code = OK
                  /\ NoRepeats(rows)
                  /\ \A e \in SlotIds :
                        (\E i \in 1..Len(rows) : rows[i].id = e)
                           <=> /\ events[e].exists
                               /\ events[e].status = SWAPPABLE
                               /\ events[e].owner_id # u
                  /\ \A i \in 1..Len(rows) :
                        rows[i].owner_name = UserName(events[rows[i].id].owner_id)
                  /\ \A i \in 1..Len(rows), j \in 1..Len(rows) :
                        i < j => start_time[rows[i].id] <= start_time[rows[j].id]

\* A list of two slots that start at different instants, the later one with
\* the smaller id, answered to a user who has a SWAPPABLE slot of their own.
C23_Witness ==
    \E w \in Workers :
        /\ EventCallDone(w, "list_swappable_slots")
        /\ Len(listing[w]) = 2
        /\ start_time[listing[w][1].id] < start_time[listing[w][2].id]
        /\ listing[w][1].id > listing[w][2].id
        /\ \E e \in SlotIds : events[e].owner_id = call[w].user /\ events[e].status = SWAPPABLE

\* C24: list_incoming_requests answers, for user u, each swap request that is
\* PENDING and whose requested slot is owned by u now, once, and no other
\* request (none that is ACCEPTED or REJECTED, none on a slot of another
\* user), the most recently created first.
C24_ListIncoming ==
    \A w \in Workers :
        EventCallDone(w, "list_incoming_requests")
           => LET rows == listing[w]
                  u == call[w].user
              IN  /\ result[w].status_code = OK
                  /\ NoRepeats(rows)
                  /\ \A i \in 1..Len(swap_requests) :
                        i \in Listed(w)
                           <=> /\ swap_requests[i].status = PENDING
                               /\ events[swap_requests[i].requested_event_id].owner_id = u
                  /\ Listed(w) \subseteq 1..Len(swap_requests)
                  /\ \A i \in 1..Len(rows), j \in 1..Len(rows) :
                        i < j => created_at[rows[i]] >= created_at[rows[j]]

\* A list of two requests, the one created later (the first listed) being the
\* one with the smaller id.
C24_Witness ==
    \E w \in Workers :
        /\ EventCallDone(w, "list_incoming_requests")
        /\ listing[w] = <<1, 2>>
        /\ created_at[1] > created_at[2]

\* C25: list_outgoing_requests answers, for user u, each swap request whose
\* requester is u, whatever its status, once, and no other request (so no
\* row for a user who has requested no swap), the most recently created
\* first.
C25_ListOutgoing ==
    \A w \in Workers :
        EventCallDone(w, "list_outgoing_requests")
           => LET rows == listing[w]
                  u == call[w].user
              IN  /\ result[w].status_code = OK
                  /\ NoRepeats(rows)
                  /\ \A i \in 1..Len(swap_requests) :
                        i \in Listed(w) <=> swap_requests[i].requester_id = u
                  /\ Listed(w) \subseteq 1..Len(swap_requests)
                  /\ \A i \in 1..Len(rows), j \in 1..Len(rows) :
                        i < j => created_at[rows[i]] >= created_at[rows[j]]

\* A list of an ACCEPTED and a REJECTED request, the later one first.
C25_Witness ==
    \E w \in Workers :
        /\ EventCallDone(w, "list_outgoing_requests")
        /\ listing[w] = <<2, 1>>
        /\ created_at[2] > created_at[1]
        /\ swap_requests[1].status = ACCEPTED
        /\ swap_requests[2].status = REJECTED

\* C26: an update_event or a delete_event call on an existing slot, made by a
\* user who does not own the slot, is answered with PermissionDenied (403) and
\* changes nothing of the slot.
C26_NonOwnerDenied ==
    [][\A w \in Workers :
          ( /\ pc[w] = "idle"
            /\ call'[w].op \in {"update_event", "delete_event"}
            /\ events[call'[w].event_id].exists
            /\ events[call'[w].event_id].owner_id # call'[w].user )
             => /\ pc'[w] = "done"
                /\ result'[w].status_code = PermissionDenied
                /\ events' = events
                /\ start_time' = start_time]_vars

\* Worker w waits for a row lock that another worker holds.
WaitsForLock(w) ==
    /\ pc[w] \in CommitLabels
    /\ ~Flushed_All(w)
    /\ \E v \in Workers \ {w} :
          FlushWrites(w)[Cardinality(session[w].locks) + 1] \in session[v].locks

\* C27: every call of request_swap, respond_to_swap, update_event or
\* delete_event that a worker has taken is answered (with success or with a
\* failure) in the end, whatever the other worker does on the same slots and
\* requests, when every handler that can go on does go on.
C27_EveryCallAnswered ==
    \A w \in Workers : (pc[w] # "idle") ~> (pc[w] = "done")

\* A handler waits for a lock of the other handler, which holds one row and
\* has another one to write.
C27_Witness ==
    \E w \in Workers, v \in Workers :
        /\ WaitsForLock(w)
        /\ session[w].locks # {}
        /\ pc[v] \in CommitLabels
        /\ session[v].locks # {}
        /\ ~Flushed_All(v)

\* What the call c does when its handler runs alone, from the arrival to the
\* response, on the committed store: the response and the store it leaves.
SerialFailure(r) == [result |-> r, events |-> events, swap_requests |-> swap_requests]

SerialRequestSwap(c) ==
    LET a == c.my_slot_id
        b == c.their_slot_id
        r == RequestSwapChecks(c.user, events[a], events[b])
    IN  IF ~events[a].exists THEN SerialFailure(Response(NotFound, "My slot not found"))
        ELSE IF ~events[b].exists
        THEN SerialFailure(Response(NotFound, "Their slot not found"))
        ELSE IF r # NoResult THEN SerialFailure(r)
        ELSE [result |-> Response(Created, ""),
              events |-> [events EXCEPT ![a].status = SWAP_PENDING,
                                        ![b].status = SWAP_PENDING],
              swap_requests |-> Append(swap_requests,
                  [requester_id |-> c.user, offered_event_id |-> a,
                   requested_event_id |-> b, status |-> PENDING])]

SerialRespondToSwap(c) ==
    LET sw == QuerySwap(c.request_id)
        o == sw.offered_event_id
        q == sw.requested_event_id
        r == RespondChecks(c.user, sw, events[o], events[q])
        new == RespondAssignments(c.accepted, sw, events[o], events[q])
    IN  IF ~sw.exists THEN SerialFailure(Response(NotFound, "Swap request not found"))
        ELSE IF r # NoResult THEN SerialFailure(r)
        ELSE [result |-> Response(OK, ""),
              events |-> [events EXCEPT ![o] = new.offered_event,
                                        ![q] = new.requested_event],
              swap_requests |-> [swap_requests EXCEPT ![sw.id].status = new.swap.status]]

Serial(c) == IF c.op = "request_swap" THEN SerialRequestSwap(c) ELSE SerialRespondToSwap(c)

\* C28: of two swap calls on different slots and requests, each step of one
\* leaves the slots and the requests of the other as they are, and each call
\* answers, and leaves the store, as its handler does when it runs alone on the
\* store it finds when it answers (or fails with the store, changing
\* nothing): the outcomes and the final state are those of the two calls run
\* one after the other, in either order.
C28_Independent ==
    [][\A w \in Workers :
          pc'[w] # pc[w]
             => /\ \A s \in DisjointSlots \ OwnSlots(w) : events'[s] = events[s]
                /\ \A i \in 1..Len(swap_requests) :
                      i \notin OwnRequests(w) => swap_requests'[i] = swap_requests[i]
                /\ pc'[w] = "done"
                      => \/ /\ result'[w] = Serial(call'[w]).result
                            /\ events' = Serial(call'[w]).events
                            /\ swap_requests' = Serial(call'[w]).swap_requests
                         \/ /\ result'[w].status_code = InternalError
                            /\ events' = events
                            /\ swap_requests' = swap_requests]_vars

\* Both calls are about to commit: a request_swap on the slots of one worker,
\* an accepted respond_to_swap on the slots of the other.
C28_Witness ==
    \E w \in Workers, v \in Workers :
        /\ pc[w] = "request_swap_commit"
        /\ pc[v] = "respond_commit"
        /\ call[v].accepted

\* The first of the six checks of request_swap that fails for user u, offered
\* slot a and requested slot b on the committed store, in the order: offered
\* slot missing, requested slot missing, offered slot not of u, requested slot
\* of u, offered slot not SWAPPABLE, requested slot not SWAPPABLE.
FirstRequestFailure(u, a, b) ==
    IF ~events[a].exists THEN Response(NotFound, "My slot not found")
    ELSE IF ~events[b].exists THEN Response(NotFound, "Their slot not found")
    ELSE IF events[a].owner_id # u
    THEN Response(PermissionDenied, "You do not own the offered slot")
    ELSE IF events[b].owner_id = u
    THEN Response(InvalidOperation, "Cannot request swap with your own slot")
    ELSE IF events[a].status # SWAPPABLE
    THEN Response(InvalidOperation, "Your slot is not swappable")
    ELSE IF events[b].status # SWAPPABLE
    THEN Response(InvalidOperation, "Requested slot is not swappable")
    ELSE NoResult

\* The checks of request_swap that fail for u, a and b, as numbers 1..6.
FailingRequestChecks(u, a, b) ==
    {k \in 1..6 :
        \/ k = 1 /\ ~events[a].exists
        \/ k = 2 /\ ~events[b].exists
        \/ k = 3 /\ events[a].exists /\ events[a].owner_id # u
        \/ k = 4 /\ events[b].exists /\ events[b].owner_id = u
        \/ k = 5 /\ events[a].exists /\ events[a].status # SWAPPABLE
        \/ k = 6 /\ events[b].exists /\ events[b].status # SWAPPABLE}

\* C29: a request_swap call that is answered before its commit is answered
\* with the failure of the first check that fails, in the order offered slot
\* missing (NotFound), requested slot missing (NotFound), offered slot not the
\* caller's (PermissionDenied), requested slot the caller's
\* (InvalidOperation), offered slot not SWAPPABLE (InvalidOperation),
\* requested slot not SWAPPABLE (InvalidOperation); and a call goes on to its
\* commit only when no check fails.
C29_RequestCheckOrder ==
    [][\A w \in Workers :
          LET c == call'[w]
              first == FirstRequestFailure(c.user, c.my_slot_id, c.their_slot_id)
          IN  (c.op = "request_swap" /\ pc[w] \in {"idle", "request_swap_their"})
                 => /\ pc'[w] = "done" => first # NoResult /\ result'[w] = first
                    /\ pc'[w] = "request_swap_commit" => first = NoResult]_vars

\* A call for which the third, the fourth, the fifth and the sixth check all
\* fail is answered with the failure of the third.
C29_Witness ==
    \E w \in Workers :
        /\ RequestDone(w)
        /\ result[w].status_code = PermissionDenied
        /\ {3, 4, 5, 6} \subseteq
              FailingRequestChecks(call[w].user, call[w].my_slot_id, call[w].their_slot_id)

\* The first of the four checks of respond_to_swap that fails for user u and
\* request r on the committed store, in the order: request missing, offered
\* or requested slot missing, requested slot not of u, request not PENDING.
FirstRespondFailure(u, r) ==
    IF r \notin 1..Len(swap_requests) THEN Response(NotFound, "Swap request not found")
    ELSE IF \/ ~events[swap_requests[r].offered_event_id].exists
            \/ ~events[swap_requests[r].requested_event_id].exists
    THEN Response(NotFound, "Related events not found")
    ELSE IF events[swap_requests[r].requested_event_id].owner_id # u
    THEN Response(PermissionDenied, "Not authorized to respond to this request")
    ELSE IF swap_requests[r].status # PENDING
    THEN Response(InvalidOperation, "Swap request already processed")
    ELSE NoResult

C31_RejectGuarded ==
    [][\A w \in Workers :
          (pc[w] = "respond_commit" /\ ~call[w].accepted /\ pc'[w] = "done")
             => \A s \in SlotIds :
                   /\ events'[s].owner_id = events[s].owner_id
                   /\ events[s].status # SWAP_PENDING
                         => events'[s].status = events[s].status
                   /\ events'[s].status # events[s].status
                         => events'[s].status = SWAPPABLE]_vars

\* The responses of the business rules.
RuleFailures == {NotFound, PermissionDenied, InvalidOperation}

\* C32: a request_swap or respond_to_swap call that is answered with NotFound,
\* PermissionDenied or InvalidOperation has changed nothing: none of its
\* steps, from its arrival to that answer, creates or modifies a swap request
\* or changes a slot.
C32_RuleFailureChangesNothing ==
    [][\A w \in Workers :
          (call'[w].op \in {"request_swap", "respond_to_swap"} /\ pc'[w] # pc[w])
             => /\ pc[w] \notin CommitLabels
                      => /\ events' = events
                         /\ swap_requests' = swap_requests
                         /\ created_at' = created_at
                /\ (pc'[w] = "done" /\ result'[w].status_code \in RuleFailures)
                      => pc[w] \notin CommitLabels]_vars

\* One call has been answered with InvalidOperation and the other with
\* PermissionDenied, on a store with an open request.
C32_Witness ==
    /\ \E w \in Workers : RequestDone(w) /\ result[w].status_code = InvalidOperation
    /\ \E w \in Workers : RespondDone(w) /\ result[w].status_code = PermissionDenied
    /\ \E i \in 1..Len(swap_requests) : swap_requests[i].status = PENDING

\* C33: in every state, a slot is SWAP_PENDING exactly when it is the offered
\* or the requested slot of a PENDING swap request.
C33_StatusInStep ==
    \A s \in SlotIds :
        events[s].exists => (events[s].status = SWAP_PENDING <=> PendingOn(s) # {})

\* C34: the owner of a slot changes only in the commit of an accepting
\* respond_to_swap that succeeds, and the owner the slot had until then is
\* the requester of that request, for its offered slot, or the responding
\* user, for its requested slot.
C34_OwnerChangesByConsent ==
    [][\A s \in SlotIds :
          (events[s].exists /\ events'[s].exists
              /\ events'[s].owner_id # events[s].owner_id)
             => \E w \in Workers :
                   /\ pc[w] = "respond_commit"
                   /\ call[w].accepted
                   /\ pc'[w] = "done"
                   /\ result'[w].status_code = OK
                   /\ LET sw == swap_requests[call[w].request_id]
                      IN  \/ /\ s = sw.offered_event_id
                             /\ events[s].owner_id = sw.requester_id
                          \/ /\ s = sw.requested_event_id
                             /\ events[s].owner_id = call[w].user]_vars

\* The slots that user u owns.
Owned(u) == {s \in SlotIds : events[s].exists /\ events[s].owner_id = u}

\* C35: no step of a request_swap or respond_to_swap call changes the number
\* of slots that a user owns.
C35_OneForOne ==
    [][(\E w \in Workers :
           /\ call'[w].op \in {"request_swap", "respond_to_swap"}
           /\ pc'[w] # pc[w])
          => \A u \in Users : Cardinality(Owned(u)') = Cardinality(Owned(u))]_vars

\* C36: an accepting respond_to_swap succeeds, and exchanges the owners of
\* the offered and the requested slot, only when both slots are SWAP_PENDING
\* as the acceptance is committed.
C36_AcceptOnlyPendingSlots ==
    [][\A w \in Workers :
          ( /\ pc[w] = "respond_commit"
            /\ call[w].accepted
            /\ pc'[w] = "done"
            /\ result'[w].status_code = OK )
             => LET sw == swap_requests[call[w].request_id]
                IN  /\ events[sw.offered_event_id].status = SWAP_PENDING
                    /\ events[sw.requested_event_id].status = SWAP_PENDING]_vars

\* C37: in every state, for every PENDING swap request, respond_to_swap
\* passes its checks for exactly one user, the owner of the requested slot,
\* and the call of that user can commit with success, which resolves the
\* request.
C37_PendingResolvable ==
    /\ \A r \in 1..Len(swap_requests) :
          swap_requests[r].status = PENDING
             => /\ events[swap_requests[r].requested_event_id].owner_id \in Users
                /\ \A u \in Users :
                      FirstRespondFailure(u, r) = NoResult
                         <=> u = events[swap_requests[r].requested_event_id].owner_id
    /\ \A w \in Workers :
          pc[w] = "respond_commit"
             => ENABLED ( /\ RespondCommit(w)
                          /\ result'[w].status_code = OK
                          /\ swap_requests'[call[w].request_id].status # PENDING )

\* The owner of the requested slot, who has moved the slot to BUSY, is about
\* to commit the answer to the request.
C37_Witness ==
    \E w \in Workers :
        /\ pc[w] = "respond_commit"
        /\ swap_requests[call[w].request_id].status = PENDING
        /\ events[swap_requests[call[w].request_id].requested_event_id].status = BUSY

\* respond_to_swap by user u on request r passes all its checks on the
\* committed store: the request is found, its two events are found, u owns
\* the requested event and the request is PENDING.
PassesRespondChecks(u, r) ==
    /\ QuerySwap(r).exists
    /\ RespondChecks(u, QuerySwap(r),
                     QueryEvent(QuerySwap(r).offered_event_id, 0, NoRow),
                     QueryEvent(QuerySwap(r).requested_event_id, 0, NoRow)) = NoResult

\* C38: list_incoming_requests answers user u with request r exactly when
\* respond_to_swap by u on r, in the same state, passes all its checks.
C38_IncomingAgreesWithRespond ==
    \A w \in Workers :
        EventCallDone(w, "list_incoming_requests")
           => \A r \in SwapIds : r \in Listed(w) <=> PassesRespondChecks(call[w].user, r)

\* The list holds one of two requests on slots of the caller: the other one
\* is resolved.
C38_Witness ==
    \E w \in Workers :
        /\ EventCallDone(w, "list_incoming_requests")
        /\ Len(listing[w]) = 1
        /\ Len(swap_requests) = 2
        /\ \A r \in 1..2 :
              events[swap_requests[r].requested_event_id].owner_id = call[w].user

\* request_swap by user u, offering slot a for slot b, passes all its checks
\* on the committed store, and so creates the request.
PassesRequestChecks(u, a, b) ==
    LET my == QueryEvent(a, 0, NoRow)
        their == QueryEvent(b, a, my)
    IN  /\ my.exists
        /\ their.exists
        /\ RequestSwapChecks(u, my, their) = NoResult

\* The slots in the rows that list_swappable_slots has answered worker w with.
ListedSlots(w) == {listing[w][i].id : i \in 1..Len(listing[w])}

C40_IsolatedPerOwner ==
    [][\A w \in Workers :
          /\ ( /\ pc[w] = "idle"
               /\ call'[w].op \in {"get_event", "update_event", "delete_event"}
               /\ events[call'[w].event_id].exists
               /\ events[call'[w].event_id].owner_id # call'[w].user )
                => /\ pc'[w] = "done"
                   /\ result'[w].status_code \notin {OK, Created, NoContent}
                   /\ listing'[w] = <<>>
                   /\ events' = events
                   /\ start_time' = start_time
          /\ (pc[w] = "idle" /\ call'[w].op = "list_events")
                => /\ pc'[w] = "done"
                   /\ {listing'[w][i] : i \in 1..Len(listing'[w])} = Owned(call'[w].user)
                   /\ Len(listing'[w]) = Cardinality(Owned(call'[w].user))]_vars

\* A user has asked to delete a slot of another user, which is still there.
C40_Witness ==
    \E w \in Workers :
        /\ EventCallDone(w, "delete_event")
        /\ result[w].status_code = NotFound
        /\ events[call[w].event_id].exists
        /\ events[call[w].event_id].owner_id # call[w].user
        /\ \E x \in Workers : Exchanged(call[x].event_id)

====
